---- MODULE Spec2Model ----
(***************************************************************************)
(* A model of the germantext application:                                  *)
(*   - parseOpenAIResponse and the POST /api/analyze handler               *)
(*     (src/src/app/api/analyze/route.ts),                                 *)
(*   - the LanguageLearningApp component: notifications, word analysis,    *)
(*     the saved-text collection and its localStorage slot                 *)
(*     (src/src/components/LanguageLearningApp.tsx).                       *)
(*                                                                         *)
(* Text is modelled as a sequence of tokens.  For the words and contexts   *)
(* of a request and for saved texts a token is one character.  For the     *)
(* completion text of the language model a token is one lexical unit:      *)
(* a code fence (three backquotes), "json", a newline, a space, a JSON     *)
(* punctuation mark, a JSON key with its colon, or the JSON text of one    *)
(* value.                                                                  *)
(***************************************************************************)
EXTENDS Integers, Sequences, FiniteSets, TLC

\* ------------------------------------------------------------------ bounds
\* longest word / context of a request, in characters
MaxStr == 2
\* longest run of fence / newline tokens put before and after a JSON body
MaxPad == 2
\* most analysis requests in flight at once
MaxInFlight == 2
\* most flashcard exports in flight at once
MaxAnkiInFlight == 1
\* most auto-dismiss timers pending at once
MaxTimers == 2
\* most saved texts in the collection
MaxTexts == 2
\* longest HTML string handed to sanitizeHtml, in tokens
MaxHtml == 3

\* ------------------------------------------------------------ text helpers
SeqsUpTo(S, n) == UNION {[1..k -> S] : k \in 0..n}

Drop(s, n) == SubSeq(s, n + 1, Len(s))

HasPrefix(s, p) == Len(s) >= Len(p) /\ SubSeq(s, 1, Len(p)) = p

\* the characters String.prototype.trim removes, and JSON's insignificant
\* whitespace, among the tokens of the model
IsWhitespace(c) == c \in {" ", "\n"}

RECURSIVE TrimStart(_)
TrimStart(s) ==
  IF s # <<>> /\ IsWhitespace(Head(s)) THEN TrimStart(Tail(s)) ELSE s

RECURSIVE TrimEnd(_)
TrimEnd(s) ==
  IF s # <<>> /\ IsWhitespace(s[Len(s)])
    THEN TrimEnd(SubSeq(s, 1, Len(s) - 1))
    ELSE s

\* String.prototype.trim
Trim(s) == TrimEnd(TrimStart(s))

\* ------------------------------------------------- completion-text tokens
\* the three backquotes of a markdown code fence (a backquote cannot be
\* written in a TLA+ string)
Fence == "~~~"
JsonTag == "json"
NL == "\n"

KeyGrammar == "\"grammarDetailsAndUsage\":"
KeyExample == "\"example\":"
KeyExtra == "\"extra\":"
KeyTokens == {KeyGrammar, KeyExample, KeyExtra}

\* the property name a key token stands for
KeyName(k) ==
  CASE k = KeyGrammar -> "grammarDetailsAndUsage"
    [] k = KeyExample -> "example"
    [] OTHER -> "extra"

\* JSON texts of values
StrHaus == "\"<i>das Haus</i> (neuter noun)\""
StrVerb == "\"<b>gehen</b> (verb)\""
StrEmpty == "\"\""
JsonNull == "null"
ExFull == "{\"german\":\"Das Haus ist gross.\",\"russian\":\"Dom bolshoj.\"}"
ExGermanOnly == "{\"german\":\"Das Haus ist gross.\"}"
ValueTokens ==
  {StrHaus, StrVerb, StrEmpty, JsonNull, ExFull, ExGermanOnly}

\* the value a property read gives when the property is absent
Undefined == "undefined"

\* JavaScript truthiness of a JSON value (or of undefined)
Truthy(v) == v \notin {Undefined, JsonNull, StrEmpty}

\* the example of FALLBACK_ANALYSIS
ExFallback ==
  "{\"german\":\"Ich erkundige mich nach den Oeffnungszeiten.\",\"russian\":\"Ya uznayu chasy raboty.\"}"

\* an example value with both german and russian populated
ExampleComplete(v) == v \in {ExFull, ExFallback}

\* --------------------------------------------------- parseOpenAIResponse
\* the two alternatives of the regular expression of route.ts line 15
FenceOpen == <<Fence, JsonTag, NL>>
FenceClose == <<NL, Fence>>

\* the replacement without the g flag: only the first occurrence is removed
RECURSIVE ReplaceFences_FirstOnly(_)
ReplaceFences_FirstOnly(s) ==
  IF s = <<>> THEN <<>>
  ELSE IF HasPrefix(s, FenceOpen) THEN Drop(s, Len(FenceOpen))
  ELSE IF HasPrefix(s, FenceClose) THEN Drop(s, Len(FenceClose))
  ELSE <<Head(s)>> \o ReplaceFences_FirstOnly(Tail(s))

\* content.replace(/(fence)json\n|\n(fence)/g, ''): scanning from the left,
\* every occurrence of either alternative is removed
RECURSIVE ReplaceFences(_)
ReplaceFences(s) ==
  IF s = <<>> THEN <<>>
  ELSE IF HasPrefix(s, FenceOpen) THEN ReplaceFences(Drop(s, Len(FenceOpen)))
  ELSE IF HasPrefix(s, FenceClose) THEN ReplaceFences(Drop(s, Len(FenceClose)))
  ELSE <<Head(s)>> \o ReplaceFences(Tail(s))

\* the cleaned text handed to JSON.parse
CleanContent(content) == Trim(ReplaceFences(content))

NoFields == [k \in {} |-> Undefined]
NoValue == [type |-> "none", token |-> Undefined, fields |-> NoFields]
ParseFailure == [ok |-> FALSE, val |-> NoValue]

\* the members of an object: key value ("," key value)* "}", a later
\* duplicate of a key replacing the earlier one
RECURSIVE ParseMembers(_, _)
ParseMembers(toks, acc) ==
  IF Len(toks) >= 3 /\ toks[1] \in KeyTokens /\ toks[2] \in ValueTokens
    THEN LET name == KeyName(toks[1])
             acc2 == [k \in (DOMAIN acc) \cup {name} |->
                        IF k = name THEN toks[2] ELSE acc[k]]
         IN  IF toks[3] = "}" /\ Len(toks) = 3
               THEN [ok |-> TRUE,
                     val |-> [type |-> "object", token |-> Undefined,
                              fields |-> acc2]]
             ELSE IF toks[3] = ","
               THEN ParseMembers(Drop(toks, 3), acc2)
             ELSE ParseFailure
    ELSE ParseFailure

\* JSON.parse on a token sequence: whitespace between tokens is skipped;
\* the text is one value, or "{" members "}"; anything else is a SyntaxError
ParseJSON(text) ==
  LET toks == SelectSeq(text, LAMBDA t : ~IsWhitespace(t))
  IN  IF Len(toks) = 1 /\ toks[1] \in ValueTokens
        THEN [ok |-> TRUE,
              val |-> [type |-> "value", token |-> toks[1], fields |-> NoFields]]
      ELSE IF toks = <<"{", "}">>
        THEN [ok |-> TRUE,
              val |-> [type |-> "object", token |-> Undefined,
                       fields |-> NoFields]]
      ELSE IF Len(toks) >= 1 /\ toks[1] = "{"
        THEN ParseMembers(Tail(toks), NoFields)
      ELSE ParseFailure

\* analysis.<name>: the property of a parsed value, undefined when absent
\* (reading a property of null throws, see parseOpenAIResponse)
GetField(val, name) ==
  IF val.type = "object" /\ name \in DOMAIN val.fields
    THEN val.fields[name]
    ELSE Undefined

IsJsonNull(val) == val.type = "value" /\ val.token = JsonNull

\* the validation with one field enough
HasRequiredFields_Either(val) ==
  \/ Truthy(GetField(val, "grammarDetailsAndUsage"))
  \/ Truthy(GetField(val, "example"))

\* the validation of route.ts line 21
HasRequiredFields(val) ==
  /\ Truthy(GetField(val, "grammarDetailsAndUsage"))
  /\ Truthy(GetField(val, "example"))

\* parseOpenAIResponse: ok with the parsed object, or a thrown error
\* (SyntaxError of JSON.parse, TypeError on null, or the missing-fields Error)
parseOpenAIResponse(content) ==
  LET p == ParseJSON(CleanContent(content))
  IN  IF p.ok /\ ~IsJsonNull(p.val) /\ HasRequiredFields(p.val)
        THEN [ok |-> TRUE, analysis |-> p.val]
        ELSE [ok |-> FALSE, analysis |-> NoValue]

\* --------------------------------------------- completion texts (inputs)
Absent == "absent"
GrammarChoices == {Absent, StrHaus, StrVerb, StrEmpty}
ExampleChoices == {Absent, ExFull, ExGermanOnly, JsonNull}
ExtraChoices == {Absent, StrVerb}

Member(key, v) == IF v = Absent THEN <<>> ELSE <<<<key, v>>>>

RECURSIVE JoinMembers(_)
JoinMembers(ms) ==
  IF ms = <<>> THEN <<>>
  ELSE IF Len(ms) = 1 THEN Head(ms)
  ELSE Head(ms) \o <<",">> \o JoinMembers(Tail(ms))

\* the JSON text of an object with the chosen members
ObjectText(g, e, x) ==
  <<"{">> \o
  JoinMembers(Member(KeyGrammar, g) \o Member(KeyExample, e) \o Member(KeyExtra, x))
  \o <<"}">>

\* JSON bodies a completion can carry: every choice of members, a
\* pretty-printed object, an object with a repeated key, a bare value, a
\* completion cut short by max_tokens, and nothing
Bodies ==
  {ObjectText(g, e, x) : g \in GrammarChoices, e \in ExampleChoices,
                         x \in ExtraChoices}
  \cup {<<"{", NL, " ", KeyGrammar, " ", StrHaus, ",", NL, " ", KeyExample,
          ExFull, NL, "}">>,
        <<"{", KeyExample, ExGermanOnly, ",", KeyGrammar, StrVerb, ",",
          KeyExample, ExFull, "}">>,
        <<"{", KeyGrammar, StrHaus, ",", KeyExample>>,
        <<"{", KeyGrammar, StrHaus, ",", "}">>,
        <<JsonNull>>, <<StrHaus>>, <<ExFull>>, <<>>}

PadTokens == {Fence, JsonTag, NL}
Pads == SeqsUpTo(PadTokens, MaxPad)

\* every body with up to MaxPad fence tokens before it and after it
Contents == {pre \o b \o post : pre \in Pads, post \in Pads, b \in Bodies}

\* C wrapped in a markdown JSON fence / in an untagged fence
WrapJsonFence(c) == <<Fence, JsonTag, NL>> \o c \o <<NL, Fence>>
WrapPlainFence(c) == <<Fence, NL>> \o c \o <<NL, Fence>>

\* ---------------------------------------------- POST /api/analyze: inputs
WordChars == {"a", " "}
Strings == SeqsUpTo(WordChars, MaxStr)

\* a JSON value found under "word" or "context": a string, a number, or
\* nothing (undefined)
StringValue(s) == [t |-> "string", s |-> s]
FieldValues ==
  {StringValue(s) : s \in Strings}
  \cup {[t |-> "number", s |-> <<>>], [t |-> "undefined", s |-> <<>>]}

\* request bodies: a JSON object, the JSON text null, or text that is no JSON
NoRequest ==
  [body |-> "none", word |-> [t |-> "undefined", s |-> <<>>],
   context |-> [t |-> "undefined", s |-> <<>>]]
Requests ==
  {[body |-> "object", word |-> w, context |-> c] :
     w \in FieldValues, c \in FieldValues}
  \cup {[NoRequest EXCEPT !.body = "null"],
        [NoRequest EXCEPT !.body = "malformed"]}

\* process.env.DEEPSEEK_API_KEY: unset, set to the empty string, or set
ApiKeys == {Undefined, "", "sk-test"}

\* the validation with the trimming left out
ValidInput_NoTrim(req) ==
  /\ req.word.t = "string"
  /\ req.context.t = "string"
  /\ req.word.s # <<>>
  /\ req.context.s # <<>>

\* the validation of route.ts line 38, negated
ValidInput(req) ==
  /\ req.word.t = "string"
  /\ req.context.t = "string"
  /\ Trim(req.word.s) # <<>>
  /\ Trim(req.context.s) # <<>>

\* the key test with only the unset key caught
KeyMissing_UnsetOnly(key) == key = Undefined

\* route.ts line 46: !apiKey
KeyMissing(key) == key \in {Undefined, ""}

\* -------------------------------------- the language-model endpoint's reply
NoText == [present |-> FALSE, s |-> <<>>]
Text(s) == [present |-> TRUE, s |-> s]

\* data.choices[0].text and data.choices[0].message.content
Envelope(text, message) == [text |-> text, message |-> message]
NoEnvelope == Envelope(NoText, NoText)

\* completion texts the endpoint sends: every body, bare or fenced
FencePrefixes == {<<>>, FenceOpen}
FenceSuffixes == {<<>>, FenceClose}
UpstreamContents ==
  {pre \o b \o post : pre \in FencePrefixes, post \in FenceSuffixes, b \in Bodies}

\* a second completion text, for envelopes that carry both fields
OtherContent == ObjectText(StrVerb, ExFull, Absent)

Envelopes ==
  {Envelope(Text(c), NoText) : c \in UpstreamContents}
  \cup {Envelope(NoText, Text(c)) : c \in UpstreamContents}
  \cup {Envelope(Text(<<>>), Text(c)) : c \in UpstreamContents}
  \cup {Envelope(Text(c), Text(OtherContent)) : c \in UpstreamContents}
  \cup {NoEnvelope}

StatusText(status) ==
  CASE status = 200 -> "OK"
    [] status = 400 -> "Bad Request"
    [] status = 401 -> "Unauthorized"
    [] status = 429 -> "Too Many Requests"
    [] status = 500 -> "Internal Server Error"
    [] OTHER -> "Service Unavailable"

UpstreamErrorStatuses == {400, 401, 429, 500, 503}

\* the error bodies of the endpoint: a JSON error object, or text that is no
\* JSON
UpstreamErrorBodies == {"{\"error\":{\"message\":\"quota exceeded for key sk-test\"}}",
                        "<html>upstream gateway error</html>"}

NoUpstream ==
  [kind |-> "none", status |-> 0, statusText |-> "", bodyIsJson |-> FALSE,
   errorBody |-> "", data |-> NoEnvelope]

\* every way the fetch of route.ts line 54 can end: it rejects (network
\* error), or resolves with a non-success status and an error body, or with
\* status 200 and a body that is no JSON, or with status 200 and an envelope
UpstreamReplies ==
  {[NoUpstream EXCEPT !.kind = "network"]}
  \cup {[kind |-> "http", status |-> st, statusText |-> StatusText(st),
         bodyIsJson |-> (eb = "{\"error\":{\"message\":\"quota exceeded for key sk-test\"}}"),
         errorBody |-> eb, data |-> NoEnvelope] :
          st \in UpstreamErrorStatuses, eb \in UpstreamErrorBodies}
  \cup {[kind |-> "http", status |-> 200, statusText |-> StatusText(200),
         bodyIsJson |-> FALSE, errorBody |-> "", data |-> NoEnvelope]}
  \cup {[kind |-> "http", status |-> 200, statusText |-> StatusText(200),
         bodyIsJson |-> TRUE, errorBody |-> "", data |-> env] :
          env \in Envelopes}

\* response.ok
ResponseOk(status) == status >= 200 /\ status <= 299

\* ------------------------------------------- POST /api/analyze: responses
\* a piece of response text and where it was taken from
Part(src, text) == [src |-> src, text |-> text]
Literal(text) == Part("literal", text)

\* NextResponse.json(body, {status}): body is {error}, {error, details} or
\* the analysis
ErrorResponse(status, error, details) ==
  [status |-> status, kind |-> "error", error |-> error, details |-> details,
   analysis |-> NoValue]
AnalysisResponse(analysis) ==
  [status |-> 200, kind |-> "analysis", error |-> <<>>, details |-> <<>>,
   analysis |-> analysis]
NoResponse ==
  [status |-> 0, kind |-> "none", error |-> <<>>, details |-> <<>>,
   analysis |-> NoValue]

\* route.ts lines 39-42
InvalidInputResponse ==
  ErrorResponse(400,
    <<Literal("Invalid input: \"word\" and \"context\" must be non-empty strings")>>,
    <<>>)

\* route.ts lines 48-51
MisconfiguredResponse ==
  ErrorResponse(500, <<Literal("DeepSeek API key is not configured")>>, <<>>)

\* route.ts lines 129-137: the outer catch; details is the message of the
\* caught exception
CaughtResponse(thrownBy) ==
  ErrorResponse(500, <<Literal("Analysis failed")>>,
                <<Part("exception", thrownBy)>>)

\* the reply to a non-success upstream status with the upstream error body
\* passed on
UpstreamErrorResponse_LeakBody(up) ==
  ErrorResponse(up.status,
    <<Literal("OpenAI API error: "), Part("statusText", up.statusText)>>,
    <<Part("errorBody", up.errorBody)>>)

\* route.ts lines 94-105: the reply to a non-success upstream status
UpstreamErrorResponse(up) ==
  ErrorResponse(up.status,
    <<Literal("OpenAI API error: "), Part("statusText", up.statusText)>>,
    <<>>)

\* the extraction with the two fields tried in the other order
ExtractContent_MessageFirst(data) ==
  IF data.message.present /\ data.message.s # <<>> THEN data.message ELSE data.text

\* route.ts line 108: data.choices?.[0]?.text || data.choices?.[0]?.message?.content
ExtractContent(data) ==
  IF data.text.present /\ data.text.s # <<>> THEN data.text ELSE data.message

\* route.ts lines 107-128: the reply to a success upstream status
UpstreamOkResponse(up) ==
  IF ~up.bodyIsJson THEN CaughtResponse("response.json")
  ELSE LET c == ExtractContent(up.data)
       IN  IF ~c.present \/ c.s = <<>>
             THEN ErrorResponse(500,
                    <<Literal("API response is missing expected content")>>, <<>>)
           ELSE LET r == parseOpenAIResponse(c.s)
                IN  IF r.ok
                      THEN AnalysisResponse(r.analysis)
                      ELSE ErrorResponse(500,
                             <<Literal("Failed to parse analysis result")>>, <<>>)

\* ------------------------------------------------- LanguageLearningApp
\* LanguageLearningApp.tsx lines 29-35
FALLBACK_ANALYSIS ==
  [type |-> "object", token |-> Undefined,
   fields |-> [grammarDetailsAndUsage |->
                 "\"Reflexive Verb (sich erkundigen) - Used with preposition nach\"",
               example |-> ExFallback]]

\* the notification state: null, or {message, type}
NoNotification == [type |-> "none", message |-> <<>>]
Notification(message, type) == [type |-> type, message |-> message]

\* error instanceof Error ? error.message : ...: the text of an error's parts
MessageOf(parts) == [i \in 1..Len(parts) |-> parts[i].text]

\* texts the user types into the add-text dialog: nothing, whitespace only,
\* a two-word line, a text with quotes and a comma, a text with a newline,
\* a backslash and a bracket, and a text with a leading space
SampleText == <<"H", " ", "g">>
QuotedText == <<"\"", ",", "\"">>
InputTexts ==
  {<<>>, <<" ", "\n">>, SampleText, QuotedText, <<"a", "\n", "\\", "]">>,
   <<" ", "a">>}

\* ---- JSON.stringify(texts) and JSON.parse(savedTexts), character by character
\* JSON.stringify of one character of a string, with the escaping left out
EscapeChar_None(c) == <<c>>

\* JSON.stringify of one character of a string
EscapeChar(c) ==
  CASE c = "\"" -> <<"\\", "\"">>
    [] c = "\\" -> <<"\\", "\\">>
    [] c = "\n" -> <<"\\", "n">>
    [] OTHER -> <<c>>

RECURSIVE EscapeString(_)
EscapeString(str) ==
  IF str = <<>> THEN <<>> ELSE EscapeChar(Head(str)) \o EscapeString(Tail(str))

QuoteString(str) == <<"\"">> \o EscapeString(str) \o <<"\"">>

RECURSIVE JoinStrings(_)
JoinStrings(ts) ==
  IF ts = <<>> THEN <<>>
  ELSE IF Len(ts) = 1 THEN QuoteString(Head(ts))
  ELSE QuoteString(Head(ts)) \o <<",">> \o JoinStrings(Tail(ts))

\* JSON.stringify of an array of strings
StringifyTexts(ts) == <<"[">> \o JoinStrings(ts) \o <<"]">>

TextsFailure == [ok |-> FALSE, val |-> <<>>, rest |-> <<>>]

\* the characters of a string literal after its opening quote: ok with the
\* string read so far and the text after the closing quote
RECURSIVE ParseStringBody(_, _)
ParseStringBody(cs, acc) ==
  IF cs = <<>> THEN TextsFailure
  ELSE IF Head(cs) = "\"" THEN [ok |-> TRUE, val |-> acc, rest |-> Tail(cs)]
  ELSE IF Head(cs) = "\n" THEN TextsFailure
  ELSE IF Head(cs) = "\\"
    THEN IF Len(cs) < 2 THEN TextsFailure
         ELSE IF cs[2] \in {"\"", "\\"}
           THEN ParseStringBody(Drop(cs, 2), Append(acc, cs[2]))
         ELSE IF cs[2] = "n"
           THEN ParseStringBody(Drop(cs, 2), Append(acc, "\n"))
         ELSE TextsFailure
  ELSE ParseStringBody(Tail(cs), Append(acc, Head(cs)))

\* the elements of an array after its "[" or after a ",": string ("," string)* "]"
RECURSIVE ParseElements(_, _)
ParseElements(cs, acc) ==
  IF cs = <<>> \/ Head(cs) # "\"" THEN TextsFailure
  ELSE LET str == ParseStringBody(Tail(cs), <<>>)
       IN  IF ~str.ok \/ str.rest = <<>> THEN TextsFailure
           ELSE IF str.rest = <<"]">>
             THEN [ok |-> TRUE, val |-> Append(acc, str.val), rest |-> <<>>]
           ELSE IF Head(str.rest) = ","
             THEN ParseElements(Tail(str.rest), Append(acc, str.val))
           ELSE TextsFailure

\* JSON.parse of the text of an array of strings; anything else is a
\* SyntaxError
ParseTexts(cs) ==
  IF cs = <<"[", "]">> THEN [ok |-> TRUE, val |-> <<>>, rest |-> <<>>]
  ELSE IF cs # <<>> /\ Head(cs) = "["
    THEN ParseElements(Tail(cs), <<>>)
  ELSE TextsFailure

\* localStorage's savedTexts slot: getItem gives null, or the stored string
NoItem == [present |-> FALSE, s |-> <<>>]
Item(cs) == [present |-> TRUE, s |-> cs]

\* a pending setTexts of the load effect
NoPending == [present |-> FALSE, val |-> <<>>]

\* ---- TextDisplay: text.split('\n') and line.split(' ')
RECURSIVE SplitOn(_, _, _)
\* the pieces of cs between occurrences of sep; cur is the piece being read
SplitOn(cs, sep, cur) ==
  IF cs = <<>> THEN <<cur>>
  ELSE IF Head(cs) = sep THEN <<cur>> \o SplitOn(Tail(cs), sep, <<>>)
  ELSE SplitOn(Tail(cs), sep, Append(cur, Head(cs)))

\* the words rendered as click targets for a text
WordsOf(text) ==
  LET lines == SplitOn(text, "\n", <<>>)
  IN  UNION {{SplitOn(lines[i], " ", <<>>)[j] :
                j \in 1..Len(SplitOn(lines[i], " ", <<>>))} : i \in 1..Len(lines)}

\* ---- what a fetch of /api/analyze can end with, seen from the component
\* replies of the language-model endpoint used when the gateway serves the
\* component: a network error, a 429, and completions that are valid,
\* valid with a partial example, and without example
SurfaceUpstreamReplies ==
  {[NoUpstream EXCEPT !.kind = "network"],
   [kind |-> "http", status |-> 429, statusText |-> StatusText(429),
    bodyIsJson |-> FALSE, errorBody |-> "<html>upstream gateway error</html>",
    data |-> NoEnvelope]}
  \cup {[kind |-> "http", status |-> 200, statusText |-> StatusText(200),
         bodyIsJson |-> TRUE, errorBody |-> "",
         data |-> Envelope(NoText, Text(c))] :
          c \in {ObjectText(StrHaus, ExFull, Absent),
                 WrapJsonFence(ObjectText(StrVerb, ExFull, Absent)),
                 ObjectText(StrHaus, ExGermanOnly, Absent),
                 ObjectText(StrHaus, Absent, StrVerb)}}

\* the responses POST /api/analyze can give to {word, context}
GatewayResponses(word, context) ==
  LET req == [body |-> "object", word |-> StringValue(word),
              context |-> StringValue(context)]
  IN  IF ~ValidInput(req) THEN {InvalidInputResponse}
      ELSE {MisconfiguredResponse}
           \cup {IF up.kind = "network" THEN CaughtResponse("fetch")
                 ELSE IF ~ResponseOk(up.status) THEN UpstreamErrorResponse(up)
                 ELSE UpstreamOkResponse(up) : up \in SurfaceUpstreamReplies}

\* the ways the fetch of LanguageLearningApp.tsx line 81 and the
\* response.json() of line 89 can end: the fetch rejects, the body is no
\* JSON, or a response of the gateway is read
AnalyzeOutcomes(word, context) ==
  {[kind |-> "network", resp |-> NoResponse],
   [kind |-> "unreadable", resp |-> NoResponse]}
  \cup {[kind |-> "response", resp |-> r] : r \in GatewayResponses(word, context)}

\* the catch branch with the test of response.ok left out
AnalysisFails_IgnoresStatus(outcome) == outcome.kind # "response"

\* the catch branch of analyzeWord is taken
AnalysisFails(outcome) ==
  outcome.kind # "response" \/ ~ResponseOk(outcome.resp.status)

\* the message of the error caught in analyzeWord (lines 92, 100)
AnalysisErrorMessage(outcome) ==
  CASE outcome.kind = "network" -> <<"Failed to fetch">>
    [] outcome.kind = "unreadable" -> <<"Unexpected token < in JSON at position 0">>
    [] OTHER -> IF outcome.resp.error # <<>>
                  THEN MessageOf(outcome.resp.error)
                  ELSE <<"Analysis failed">>

\* what the fetch of /api/anki (line 111) can end with
AnkiOutcomes == {"created", "failed", "errorField", "network"}

\* ------------------------------------------- flashcard gateway: POST /api/anki
\* flashcard gateway: nothing received, fetched or returned yet
NoAnkiRequest ==
  [kind |-> "none", germanPhrase |-> [t |-> "undefined", s |-> <<>>],
   russianTranslation |-> [t |-> "undefined", s |-> <<>>]]
NoAnkiUpstream == [kind |-> "none", status |-> 0, body |-> "none"]
NoAnkiResponse == [status |-> 0, kind |-> "none", error |-> <<>>]

\* request bodies: a JSON object with the two fields, the JSON text null, or
\* text that is no JSON
AnkiRequests ==
  {[kind |-> "object", germanPhrase |-> g, russianTranslation |-> r] :
     g \in FieldValues, r \in FieldValues}
  \cup {[NoAnkiRequest EXCEPT !.kind = "null"],
        [NoAnkiRequest EXCEPT !.kind = "malformed"]}

\* process.env.ANKI_CONNECT_URL: unset, or the address of the service
AnkiUrls == {Undefined, "http://localhost:8765"}

\* bodies the flashcard service can answer with: text that is no JSON, the
\* JSON text null, and objects without an error member, with error: null
\* (what AnkiConnect sends when a note was added), with error: "" and with
\* an error message
AnkiBodies ==
  {"notJson", "null", "noErrorField", "errorNull", "errorEmpty", "errorText"}
AnkiStatuses == {200, 201, 404, 500}

\* what the fetch of line 7 can end with: a rejection, or an HTTP reply
AnkiUpstreamReplies ==
  {[NoAnkiUpstream EXCEPT !.kind = "network"]}
  \cup {[kind |-> "http", status |-> st, body |-> b] :
          st \in AnkiStatuses, b \in AnkiBodies}

\* line 36: response.json() rejects on text that is no JSON
AnkiBodyUnreadable(body) == body = "notJson"

\* line 37: reading result.error throws on null; otherwise the member is
\* tested for truthiness
AnkiResultThrows(body) == body = "null"
AnkiErrorTruthy(body) == body = "errorText"

\* line 43 and line 41
AnkiFailedResponse ==
  [status |-> 500, kind |-> "error", error |-> <<"Anki operation failed">>]
AnkiSuccessResponse == [status |-> 200, kind |-> "success", error |-> <<>>]

\* lines 32-44 with the test of response.ok left out
AnkiReplyResponse_IgnoresStatus(reply) ==
  IF \/ reply.kind = "network"
     \/ AnkiBodyUnreadable(reply.body)
     \/ AnkiResultThrows(reply.body)
     \/ AnkiErrorTruthy(reply.body)
    THEN AnkiFailedResponse
    ELSE AnkiSuccessResponse

\* lines 7-44: what the handler returns once the fetch has ended
AnkiReplyResponse(reply) ==
  CASE reply.kind = "network" -> AnkiFailedResponse
    [] ~ResponseOk(reply.status) -> AnkiFailedResponse
    [] AnkiBodyUnreadable(reply.body) -> AnkiFailedResponse
    [] AnkiResultThrows(reply.body) -> AnkiFailedResponse
    [] AnkiErrorTruthy(reply.body) -> AnkiFailedResponse
    [] OTHER -> AnkiSuccessResponse

\* ------------------------------------------------------------- variables
VARIABLES
  content,          \* parser run: the completion text under test
  parsed,           \* parser run: which of the three parses have been made
  plainResult,      \* parser run: parseOpenAIResponse(content)
  fencedResult,     \* parser run: parseOpenAIResponse of content in a json fence
  untaggedResult,   \* parser run: parseOpenAIResponse of content in a bare fence
  apiKey,           \* gateway: process.env.DEEPSEEK_API_KEY
  gwPc,             \* gateway: where the POST handler stands
  request,          \* gateway: the body of the request being handled
  outboundCalls,    \* gateway: fetches issued while handling the request
  upstream,         \* gateway: what the fetch ended with
  response,         \* gateway: the response returned
  mountPc,          \* component: unmounted, or how far mounting has got
  texts,            \* component: the texts state
  pendingTexts,     \* component: the setTexts queued by the load effect
  persisted,        \* localStorage: the savedTexts slot
  newText,          \* component: the newText state
  isAddingNew,      \* component: the isAddingNew state
  notification,     \* component: the notification state
  timers,           \* component: pending setTimeout callbacks of showNotification
  selectedText,     \* component: the selectedText state
  selectedWord,     \* component: the selectedWord state
  wordAnalysis,     \* component: the wordAnalysis state
  isLoading,        \* component: the isLoading state
  inflight,         \* component: analysis requests not yet settled, oldest first
  ankiInflight,     \* component: flashcard exports not yet settled
  lastEvent,        \* history: the kind of the last step of the component
  anyResolved,      \* history: some analysis request has settled
  savedBefore,      \* history: the collection held when the page was last closed
  lastSettled,      \* history: the word of the analysis request that settled last
  unsettledClicks,  \* history: word clicks whose analysis has not settled yet
  unsettledExports, \* history: Save to Anki clicks whose export has not settled yet
  ankiUrl,          \* flashcard gateway: process.env.ANKI_CONNECT_URL
  ankiPc,           \* flashcard gateway: where the POST handler stands
  ankiRequest,      \* flashcard gateway: the body of the request being handled
  ankiCalls,        \* flashcard gateway: fetches issued while handling the request
  ankiUpstream,     \* flashcard gateway: what the fetch ended with
  ankiResponse,     \* flashcard gateway: the response returned
  sanWindow,        \* sanitizer run: whether a window object exists
  sanInput,         \* sanitizer run: the HTML handed to sanitizeHtml
  sanOutput         \* sanitizer run: the markup injected, once sanitizeHtml has run

parserVars == <<content, parsed, plainResult, fencedResult, untaggedResult>>
gatewayVars == <<apiKey, gwPc, request, outboundCalls, upstream, response>>
storeVars == <<mountPc, texts, pendingTexts, persisted, newText, isAddingNew>>
notificationVars == <<notification, timers>>
analysisVars ==
  <<selectedText, selectedWord, wordAnalysis, isLoading, inflight, ankiInflight>>
historyVars ==
  <<lastEvent, anyResolved, savedBefore, lastSettled,
                 unsettledClicks, unsettledExports, unsettledClicks,
    unsettledExports>>
surfaceVars == <<storeVars, notificationVars, analysisVars, historyVars>>
ankiVars ==
  <<ankiUrl, ankiPc, ankiRequest, ankiCalls, ankiUpstream, ankiResponse>>
sanitizeVars == <<sanWindow, sanInput, sanOutput>>
otherVars == <<ankiVars, sanitizeVars>>
vars == <<parserVars, gatewayVars, surfaceVars, otherVars>>

NotParsed == [ok |-> FALSE, analysis |-> NoValue]

\* no analysis request has settled yet
NoSettled == NoText

\* ------------------------------------------------ sanitize.ts: sanitizeHtml
\* HTML as a sequence of tokens: text, a harmless tag, the two tags of a
\* script element, an element with an event-handler attribute, and the same
\* element without it
HtmlText == "das Haus"
TagItalic == "<i>"
ScriptOpen == "<script>"
ScriptClose == "</script>"
ImgOnError == "<img src=x onerror=alert(1)>"
ImgPlain == "<img src=\"x\">"
HtmlTokens == {HtmlText, TagItalic, ScriptOpen, ScriptClose, ImgOnError}
HtmlInputs == SeqsUpTo(HtmlTokens, MaxHtml)

\* what follows a script element: the tokens after its closing tag, nothing
\* when it is not closed
RECURSIVE AfterScript(_)
AfterScript(html) ==
  IF html = <<>> THEN <<>>
  ELSE IF Head(html) = ScriptClose THEN Tail(html)
  ELSE AfterScript(Tail(html))

\* line 5: DOMPurify.sanitize removes script elements with their content and
\* event-handler attributes, and keeps text and harmless tags
RECURSIVE DOMPurifySanitize(_)
DOMPurifySanitize(html) ==
  IF html = <<>> THEN <<>>
  ELSE CASE Head(html) = ScriptOpen -> DOMPurifySanitize(AfterScript(Tail(html)))
         [] Head(html) = ScriptClose -> DOMPurifySanitize(Tail(html))
         [] Head(html) = ImgOnError -> <<ImgPlain>> \o DOMPurifySanitize(Tail(html))
         [] OTHER -> <<Head(html)>> \o DOMPurifySanitize(Tail(html))

\* lines 3-6: sanitizeHtml, where typeof window is or is not 'undefined'
sanitizeHtml(html, hasWindow) ==
  IF ~hasWindow THEN html ELSE DOMPurifySanitize(html)

\* markup that runs script when injected with dangerouslySetInnerHTML
RunsScript(html) ==
  \E i \in 1..Len(html) : html[i] \in {ScriptOpen, ImgOnError}

\* sanitizer run: sanitizeHtml has not returned yet
NoMarkup == [present |-> FALSE, html |-> <<>>]

\* a component that takes no part in a specification stays in these states
ParserIdle ==
  /\ content = <<>>
  /\ parsed = {}
  /\ plainResult = NotParsed
  /\ fencedResult = NotParsed
  /\ untaggedResult = NotParsed

GatewayIdle ==
  /\ apiKey = Undefined
  /\ gwPc = "idle"
  /\ request = NoRequest
  /\ outboundCalls = 0
  /\ upstream = NoUpstream
  /\ response = NoResponse

AnkiIdle ==
  /\ ankiUrl = Undefined
  /\ ankiPc = "off"
  /\ ankiRequest = NoAnkiRequest
  /\ ankiCalls = 0
  /\ ankiUpstream = NoAnkiUpstream
  /\ ankiResponse = NoAnkiResponse

SanitizeIdle ==
  /\ sanWindow = FALSE
  /\ sanInput = <<>>
  /\ sanOutput = NoMarkup

OthersIdle == AnkiIdle /\ SanitizeIdle

\* the component before it is mounted, nothing stored
SurfaceIdle ==
  /\ mountPc = "unmounted"
  /\ texts = <<>>
  /\ pendingTexts = NoPending
  /\ persisted = NoItem
  /\ newText = <<>>
  /\ isAddingNew = FALSE
  /\ notification = NoNotification
  /\ timers = 0
  /\ selectedText = NoText
  /\ selectedWord = NoText
  /\ wordAnalysis = NoValue
  /\ isLoading = FALSE
  /\ inflight = <<>>
  /\ ankiInflight = 0
  /\ lastEvent = [kind |-> "none", outcome |-> "", status |-> 0]
  /\ anyResolved = FALSE
  /\ savedBefore = <<>>
  /\ lastSettled = NoSettled
  /\ unsettledClicks = 0
  /\ unsettledExports = 0

\* ------------------------------------------------ parser run (pure function)
ParserInit ==
  /\ GatewayIdle
  /\ SurfaceIdle
  /\ OthersIdle
  /\ content \in Contents
  /\ parsed = {}
  /\ plainResult = NotParsed
  /\ fencedResult = NotParsed
  /\ untaggedResult = NotParsed

ParsePlain ==
  /\ "plain" \notin parsed
  /\ plainResult' = parseOpenAIResponse(content)
  /\ parsed' = parsed \cup {"plain"}
  /\ UNCHANGED <<content, fencedResult, untaggedResult, gatewayVars, surfaceVars, otherVars>>

ParseFenced ==
  /\ parsed = {"plain"}
  /\ fencedResult' = parseOpenAIResponse(WrapJsonFence(content))
  /\ parsed' = parsed \cup {"fenced"}
  /\ UNCHANGED <<content, plainResult, untaggedResult, gatewayVars, surfaceVars, otherVars>>

ParseUntagged ==
  /\ parsed = {"plain", "fenced"}
  /\ untaggedResult' = parseOpenAIResponse(WrapPlainFence(content))
  /\ parsed' = parsed \cup {"untagged"}
  /\ UNCHANGED <<content, plainResult, fencedResult, gatewayVars, surfaceVars, otherVars>>

ParserNext == ParsePlain \/ ParseFenced \/ ParseUntagged

SpecParser == ParserInit /\ [][ParserNext]_vars

\* --------------------------------------------------- POST /api/analyze
GatewayInit ==
  /\ ParserIdle
  /\ SurfaceIdle
  /\ OthersIdle
  /\ apiKey \in ApiKeys
  /\ gwPc = "idle"
  /\ request = NoRequest
  /\ outboundCalls = 0
  /\ upstream = NoUpstream
  /\ response = NoResponse

\* a request arrives and the handler starts: await request.json()
ReceiveRequest ==
  /\ gwPc = "idle"
  /\ \E req \in Requests : request' = req
  /\ gwPc' = "received"
  /\ outboundCalls' = 0
  /\ upstream' = NoUpstream
  /\ response' = NoResponse
  /\ UNCHANGED <<apiKey, parserVars, surfaceVars, otherVars>>

\* route.ts lines 35-92: request.json() settles (a body that is no JSON makes
\* it throw, a null body makes the destructuring throw), the input is
\* validated, the key is read, and the fetch is issued
HandleRequest ==
  /\ gwPc = "received"
  /\ IF request.body # "object"
       THEN /\ response' = CaughtResponse("request.json")
            /\ gwPc' = "responded"
            /\ UNCHANGED outboundCalls
     ELSE IF ~ValidInput(request)
       THEN /\ response' = InvalidInputResponse
            /\ gwPc' = "responded"
            /\ UNCHANGED outboundCalls
     ELSE IF KeyMissing(apiKey)
       THEN /\ response' = MisconfiguredResponse
            /\ gwPc' = "responded"
            /\ UNCHANGED outboundCalls
     ELSE /\ outboundCalls' = outboundCalls + 1
          /\ gwPc' = "fetching"
          /\ UNCHANGED response
  /\ UNCHANGED <<apiKey, request, upstream, parserVars, surfaceVars, otherVars>>

\* the handler fetching again when the fetch fails or the upstream answers
\* with a non-success status
UpstreamReply_Retry ==
  /\ gwPc = "fetching"
  /\ \E up \in UpstreamReplies :
       /\ upstream' = up
       /\ IF up.kind = "network" \/ ~ResponseOk(up.status)
            THEN /\ outboundCalls' = outboundCalls + 1
                 /\ gwPc' = "fetching"
                 /\ UNCHANGED response
            ELSE /\ response' = UpstreamOkResponse(up)
                 /\ gwPc' = "responded"
                 /\ UNCHANGED outboundCalls
  /\ UNCHANGED <<apiKey, request, parserVars, surfaceVars, otherVars>>

\* route.ts lines 94-137: the fetch settles and the handler answers
UpstreamReply ==
  /\ gwPc = "fetching"
  /\ \E up \in UpstreamReplies :
       /\ upstream' = up
       /\ response' =
            IF up.kind = "network" THEN CaughtResponse("fetch")
            ELSE IF ~ResponseOk(up.status) THEN UpstreamErrorResponse(up)
            ELSE UpstreamOkResponse(up)
  /\ gwPc' = "responded"
  /\ UNCHANGED <<apiKey, request, outboundCalls, parserVars, surfaceVars, otherVars>>

\* the handler keeps nothing between requests
NextRequest ==
  /\ gwPc = "responded"
  /\ gwPc' = "idle"
  /\ request' = NoRequest
  /\ outboundCalls' = 0
  /\ upstream' = NoUpstream
  /\ response' = NoResponse
  /\ UNCHANGED <<apiKey, parserVars, surfaceVars, otherVars>>

Next == ReceiveRequest \/ HandleRequest \/ UpstreamReply \/ NextRequest

Spec == GatewayInit /\ [][Next]_vars

\* --------------------------------- sanitizer run (pure function), as called
\* at LanguageLearningApp.tsx lines 263-266
SanitizeInit ==
  /\ ParserIdle
  /\ GatewayIdle
  /\ SurfaceIdle
  /\ AnkiIdle
  /\ sanWindow \in BOOLEAN
  /\ sanInput \in HtmlInputs
  /\ sanOutput = NoMarkup

\* the value of __html: sanitizeHtml applied to grammarDetailsAndUsage
InjectMarkup ==
  /\ ~sanOutput.present
  /\ sanOutput' = [present |-> TRUE, html |-> sanitizeHtml(sanInput, sanWindow)]
  /\ UNCHANGED <<sanWindow, sanInput, parserVars, gatewayVars, surfaceVars,
                 ankiVars>>

SanitizeNext == InjectMarkup

SpecSanitize == SanitizeInit /\ [][SanitizeNext]_vars

\* ------------------------------------------- flashcard gateway: POST /api/anki
AnkiInit ==
  /\ ParserIdle
  /\ GatewayIdle
  /\ SurfaceIdle
  /\ SanitizeIdle
  /\ ankiUrl \in AnkiUrls
  /\ ankiPc = "idle"
  /\ ankiRequest = NoAnkiRequest
  /\ ankiCalls = 0
  /\ ankiUpstream = NoAnkiUpstream
  /\ ankiResponse = NoAnkiResponse

\* a request reaches POST
AnkiReceiveRequest ==
  /\ ankiPc = "idle"
  /\ ankiRequest' \in AnkiRequests
  /\ ankiPc' = "received"
  /\ UNCHANGED <<ankiUrl, ankiCalls, ankiUpstream, ankiResponse,
                 parserVars, gatewayVars, surfaceVars, sanitizeVars>>

\* line 4, outside the try: request.json() rejects on text that is no JSON
\* and destructuring null throws; the handler then returns nothing.
\* line 7: fetch rejects without a call when the address is undefined,
\* otherwise one call goes out
AnkiHandleRequest ==
  /\ ankiPc = "received"
  /\ IF ankiRequest.kind # "object"
       THEN /\ ankiPc' = "threw"
            /\ UNCHANGED <<ankiCalls, ankiResponse>>
       ELSE IF ankiUrl = Undefined
         THEN /\ ankiPc' = "responded"
              /\ ankiResponse' = AnkiFailedResponse
              /\ UNCHANGED ankiCalls
         ELSE /\ ankiPc' = "fetching"
              /\ ankiCalls' = ankiCalls + 1
              /\ UNCHANGED ankiResponse
  /\ UNCHANGED <<ankiUrl, ankiRequest, ankiUpstream,
                 parserVars, gatewayVars, surfaceVars, sanitizeVars>>

\* lines 30-44: the fetch ends and the handler returns
AnkiUpstreamReply ==
  /\ ankiPc = "fetching"
  /\ \E reply \in AnkiUpstreamReplies :
       /\ ankiUpstream' = reply
       /\ ankiResponse' = AnkiReplyResponse(reply)
  /\ ankiPc' = "responded"
  /\ UNCHANGED <<ankiUrl, ankiRequest, ankiCalls,
                 parserVars, gatewayVars, surfaceVars, sanitizeVars>>

\* the handler is done with the request; the next one starts afresh
AnkiNextRequest ==
  /\ ankiPc \in {"responded", "threw"}
  /\ ankiPc' = "idle"
  /\ ankiRequest' = NoAnkiRequest
  /\ ankiCalls' = 0
  /\ ankiUpstream' = NoAnkiUpstream
  /\ ankiResponse' = NoAnkiResponse
  /\ UNCHANGED <<ankiUrl, parserVars, gatewayVars, surfaceVars, sanitizeVars>>

AnkiNext ==
  \/ AnkiReceiveRequest \/ AnkiHandleRequest
  \/ AnkiUpstreamReply \/ AnkiNextRequest

SpecAnki == AnkiInit /\ [][AnkiNext]_vars


\* ------------------------------------------------- component: events
Event(kind) == [kind |-> kind, outcome |-> "", status |-> 0]
SettledEvent(outcome) ==
  [kind |-> "analysisSettled", outcome |-> outcome.kind,
   status |-> outcome.resp.status]

Ready == mountPc = "ready"

\* LanguageLearningApp.tsx lines 69-74: showNotification
showNotification(message, type) ==
  /\ notification' = Notification(message, type)
  /\ timers' = IF type # "error" THEN timers + 1 ELSE timers

\* line 72: a callback of setTimeout runs: setNotification(null)
TimerFires ==
  /\ Ready
  /\ timers > 0
  /\ timers' = timers - 1
  /\ notification' = NoNotification
  /\ lastEvent' = Event("timer")
  /\ UNCHANGED <<storeVars, analysisVars, anyResolved, savedBefore, lastSettled,
                 unsettledClicks, unsettledExports,
                 parserVars, gatewayVars,
                 otherVars>>

\* line 199: the close button of the notification
CloseNotification ==
  /\ Ready
  /\ notification # NoNotification
  /\ notification' = NoNotification
  /\ lastEvent' = Event("close")
  /\ UNCHANGED <<timers, storeVars, analysisVars, anyResolved, savedBefore, lastSettled,
                 unsettledClicks, unsettledExports,
                 parserVars, gatewayVars,
                 otherVars>>

\* line 237: a saved text is selected
SelectText ==
  /\ Ready
  /\ \E i \in 1..Len(texts) : selectedText' = Text(texts[i])
  /\ lastEvent' = Event("select")
  /\ UNCHANGED <<selectedWord, wordAnalysis, isLoading, inflight, ankiInflight,
                 storeVars, notificationVars, anyResolved, savedBefore, lastSettled,
                 unsettledClicks, unsettledExports,
                 parserVars, gatewayVars,
                 otherVars>>

\* handleWordClick with an abort of the requests still in flight
handleWordClick_CancelsPrevious ==
  /\ Ready
  /\ selectedText.present
  /\ Len(inflight) < MaxInFlight
  /\ \E w \in WordsOf(selectedText.s) :
       /\ selectedWord' = Text(w)
       /\ inflight' = <<[word |-> w, context |-> selectedText.s]>>
  /\ isLoading' = TRUE
  /\ lastEvent' = Event("click")
  /\ unsettledClicks' = unsettledClicks + 1
  /\ UNCHANGED <<selectedText, wordAnalysis, ankiInflight, storeVars,
                 notificationVars, anyResolved, savedBefore, lastSettled,
                 unsettledExports,
                 parserVars, gatewayVars,
                 otherVars>>

\* lines 179-182 and 77-87: handleWordClick, and analyzeWord up to its fetch
handleWordClick ==
  /\ Ready
  /\ selectedText.present
  /\ Len(inflight) < MaxInFlight
  /\ \E w \in WordsOf(selectedText.s) :
       /\ selectedWord' = Text(w)
       /\ inflight' = Append(inflight, [word |-> w, context |-> selectedText.s])
  /\ isLoading' = TRUE
  /\ lastEvent' = Event("click")
  /\ unsettledClicks' = unsettledClicks + 1
  /\ UNCHANGED <<selectedText, wordAnalysis, ankiInflight, storeVars,
                 notificationVars, anyResolved, savedBefore, lastSettled,
                 unsettledExports,
                 parserVars, gatewayVars,
                 otherVars>>

\* lines 89-106: the fetch of one request in flight settles and analyzeWord
\* runs to its end
AnalysisSettles ==
  /\ Ready
  /\ \E i \in 1..Len(inflight) :
       /\ inflight' = SubSeq(inflight, 1, i - 1) \o Drop(inflight, i)
       /\ \E outcome \in AnalyzeOutcomes(inflight[i].word, inflight[i].context) :
            /\ IF AnalysisFails(outcome)
                 THEN /\ showNotification(AnalysisErrorMessage(outcome), "error")
                      /\ wordAnalysis' = FALLBACK_ANALYSIS
                 ELSE /\ wordAnalysis' = outcome.resp.analysis
                      /\ UNCHANGED notificationVars
            /\ lastEvent' = SettledEvent(outcome)
            /\ lastSettled' = Text(inflight[i].word)
  /\ isLoading' = FALSE
  /\ anyResolved' = TRUE
  /\ unsettledClicks' = unsettledClicks - 1
  /\ UNCHANGED <<selectedText, selectedWord, ankiInflight, storeVars,
                 savedBefore, unsettledExports, parserVars, gatewayVars,
                 otherVars>>

\* lines 279 and 109-117: the Save to Anki button, shown with the analysis
saveToAnki ==
  /\ Ready
  /\ wordAnalysis # NoValue
  /\ ~isLoading
  /\ ankiInflight < MaxAnkiInFlight
  /\ ankiInflight' = ankiInflight + 1
  /\ lastEvent' = Event("ankiClick")
  /\ unsettledExports' = unsettledExports + 1
  /\ UNCHANGED <<selectedText, selectedWord, wordAnalysis, isLoading, inflight,
                 storeVars, notificationVars, anyResolved, savedBefore, lastSettled,
                 unsettledClicks,
                 parserVars, gatewayVars,
                 otherVars>>

\* lines 119-132: the fetch of /api/anki settles
AnkiSettles ==
  /\ Ready
  /\ ankiInflight > 0
  /\ ankiInflight' = ankiInflight - 1
  /\ \E o \in AnkiOutcomes :
       IF o = "created"
         THEN /\ timers < MaxTimers
              /\ showNotification(<<"Successfully saved to Anki">>, "success")
              /\ lastEvent' = Event("ankiCreated")
         ELSE /\ showNotification(
                   <<"Error saving to Anki - Please check if Anki is running">>,
                   "error")
              /\ lastEvent' = Event("ankiFailed")
  /\ unsettledExports' = unsettledExports - 1
  /\ UNCHANGED <<selectedText, selectedWord, wordAnalysis, isLoading, inflight,
                 storeVars, anyResolved, savedBefore, lastSettled,
                 unsettledClicks, parserVars, gatewayVars,
                 otherVars>>

\* lines 135-145: readText; speech synthesis works, or throws
readText ==
  /\ Ready
  /\ selectedText.present \/ (wordAnalysis # NoValue /\ ~isLoading)
  /\ \E throws \in BOOLEAN :
       IF throws
         THEN /\ showNotification(<<"Unable to read text aloud">>, "error")
              /\ lastEvent' = Event("readFailed")
         ELSE /\ UNCHANGED notificationVars
              /\ lastEvent' = Event("read")
  /\ UNCHANGED <<storeVars, analysisVars, anyResolved, savedBefore, lastSettled,
                 unsettledClicks, unsettledExports,
                 parserVars, gatewayVars,
                 otherVars>>

\* ---------------------------------------------- component: the text store
\* the component is rendered for the first time, every state at its initial
\* value (lines 49-56)
Mount ==
  /\ mountPc = "unmounted"
  /\ mountPc' = "rendered"
  /\ lastEvent' = Event("render")
  /\ UNCHANGED <<texts, pendingTexts, persisted, newText, isAddingNew,
                 notificationVars, analysisVars, anyResolved, savedBefore, lastSettled,
                 unsettledClicks, unsettledExports,
                 parserVars, gatewayVars,
                 otherVars>>

\* lines 58-63: the load effect; JSON.parse throws on text that is no JSON
LoadEffect ==
  /\ mountPc = "rendered"
  /\ IF persisted.present /\ persisted.s # <<>>
       THEN LET loaded == ParseTexts(persisted.s)
            IN  IF loaded.ok
                  THEN /\ pendingTexts' = [present |-> TRUE, val |-> loaded.val]
                       /\ mountPc' = "loaded"
                  ELSE /\ pendingTexts' = NoPending
                       /\ mountPc' = "crashed"
       ELSE /\ pendingTexts' = NoPending
            /\ mountPc' = "loaded"
  /\ lastEvent' = Event("load")
  /\ UNCHANGED <<texts, persisted, newText, isAddingNew, notificationVars,
                 analysisVars, anyResolved, savedBefore, lastSettled,
                 unsettledClicks, unsettledExports, parserVars, gatewayVars,
                 otherVars>>

\* lines 65-67: the persist effect of the first render, texts still []
PersistEffect ==
  /\ mountPc = "loaded"
  /\ persisted' = Item(StringifyTexts(texts))
  /\ mountPc' = "persisted"
  /\ lastEvent' = Event("persist")
  /\ UNCHANGED <<texts, pendingTexts, newText, isAddingNew, notificationVars,
                 analysisVars, anyResolved, savedBefore, lastSettled,
                 unsettledClicks, unsettledExports, parserVars, gatewayVars,
                 otherVars>>

\* the queued setTexts is applied, the component renders again and the
\* persist effect runs for the new texts (lines 61, 65-67)
ApplyLoadedTexts ==
  /\ mountPc = "persisted"
  /\ IF pendingTexts.present
       THEN /\ texts' = pendingTexts.val
            /\ persisted' = Item(StringifyTexts(pendingTexts.val))
       ELSE UNCHANGED <<texts, persisted>>
  /\ pendingTexts' = NoPending
  /\ mountPc' = "ready"
  /\ lastEvent' = Event("mounted")
  /\ UNCHANGED <<newText, isAddingNew, notificationVars, analysisVars,
                 anyResolved, savedBefore, lastSettled,
                 unsettledClicks, unsettledExports, parserVars, gatewayVars,
                 otherVars>>

\* line 205: the Add New Text button
OpenAddDialog ==
  /\ Ready
  /\ ~isAddingNew
  /\ isAddingNew' = TRUE
  /\ lastEvent' = Event("openDialog")
  /\ UNCHANGED <<mountPc, texts, pendingTexts, persisted, newText,
                 notificationVars, analysisVars, anyResolved, savedBefore, lastSettled,
                 unsettledClicks, unsettledExports,
                 parserVars, gatewayVars,
                 otherVars>>

\* line 211: the dialog is dismissed (onOpenChange)
CloseAddDialog ==
  /\ Ready
  /\ isAddingNew
  /\ isAddingNew' = FALSE
  /\ lastEvent' = Event("closeDialog")
  /\ UNCHANGED <<mountPc, texts, pendingTexts, persisted, newText,
                 notificationVars, analysisVars, anyResolved, savedBefore, lastSettled,
                 unsettledClicks, unsettledExports,
                 parserVars, gatewayVars,
                 otherVars>>

\* line 219: the textarea of the dialog changes
TypeNewText ==
  /\ Ready
  /\ isAddingNew
  /\ \E t \in InputTexts : newText' = t
  /\ lastEvent' = Event("type")
  /\ UNCHANGED <<mountPc, texts, pendingTexts, persisted, isAddingNew,
                 notificationVars, analysisVars, anyResolved, savedBefore, lastSettled,
                 unsettledClicks, unsettledExports,
                 parserVars, gatewayVars,
                 otherVars>>

\* handleSaveText without the persist effect of lines 65-67
handleSaveText_NoPersist ==
  /\ Ready
  /\ isAddingNew
  /\ IF Trim(newText) # <<>>
       THEN /\ Len(texts) < MaxTexts
            /\ timers < MaxTimers
            /\ texts' = Append(texts, newText)
            /\ newText' = <<>>
            /\ isAddingNew' = FALSE
            /\ showNotification(<<"Text saved successfully">>, "success")
            /\ UNCHANGED persisted
            /\ lastEvent' = Event("saved")
       ELSE /\ lastEvent' = Event("saveIgnored")
            /\ UNCHANGED <<texts, newText, isAddingNew, notificationVars,
                           persisted>>
  /\ UNCHANGED <<mountPc, pendingTexts, analysisVars, anyResolved, savedBefore, lastSettled,
                 unsettledClicks, unsettledExports,
                 parserVars, gatewayVars,
                 otherVars>>

\* handleSaveText storing newText.trim() instead of newText
handleSaveText_StoresTrimmed ==
  /\ Ready
  /\ isAddingNew
  /\ IF Trim(newText) # <<>>
       THEN /\ Len(texts) < MaxTexts
            /\ timers < MaxTimers
            /\ texts' = Append(texts, Trim(newText))
            /\ newText' = <<>>
            /\ isAddingNew' = FALSE
            /\ showNotification(<<"Text saved successfully">>, "success")
            /\ persisted' = Item(StringifyTexts(texts'))
            /\ lastEvent' = Event("saved")
       ELSE /\ lastEvent' = Event("saveIgnored")
            /\ UNCHANGED <<texts, newText, isAddingNew, notificationVars,
                           persisted>>
  /\ UNCHANGED <<mountPc, pendingTexts, analysisVars, anyResolved, savedBefore, lastSettled,
                 unsettledClicks, unsettledExports,
                 parserVars, gatewayVars,
                 otherVars>>

\* lines 184-191 and 65-67: handleSaveText, and the persist effect of the
\* render that follows a change of texts
handleSaveText ==
  /\ Ready
  /\ isAddingNew
  /\ IF Trim(newText) # <<>>
       THEN /\ Len(texts) < MaxTexts
            /\ timers < MaxTimers
            /\ texts' = Append(texts, newText)
            /\ newText' = <<>>
            /\ isAddingNew' = FALSE
            /\ showNotification(<<"Text saved successfully">>, "success")
            /\ persisted' = Item(StringifyTexts(texts'))
            /\ lastEvent' = Event("saved")
       ELSE /\ lastEvent' = Event("saveIgnored")
            /\ UNCHANGED <<texts, newText, isAddingNew, notificationVars,
                           persisted>>
  /\ UNCHANGED <<mountPc, pendingTexts, analysisVars, anyResolved, savedBefore, lastSettled,
                 unsettledClicks, unsettledExports,
                 parserVars, gatewayVars,
                 otherVars>>

\* the page is closed and opened again: the component's state is gone, the
\* localStorage slot stays
Reload ==
  /\ Ready
  /\ mountPc' = "unmounted"
  /\ savedBefore' = texts
  /\ texts' = <<>>
  /\ pendingTexts' = NoPending
  /\ newText' = <<>>
  /\ isAddingNew' = FALSE
  /\ notification' = NoNotification
  /\ timers' = 0
  /\ selectedText' = NoText
  /\ selectedWord' = NoText
  /\ wordAnalysis' = NoValue
  /\ isLoading' = FALSE
  /\ inflight' = <<>>
  /\ ankiInflight' = 0
  /\ anyResolved' = FALSE
  /\ lastSettled' = NoSettled
  /\ unsettledClicks' = 0
  /\ unsettledExports' = 0
  /\ lastEvent' = Event("reload")
  /\ UNCHANGED <<persisted, parserVars, gatewayVars,
                 otherVars>>

\* ---- the text store: mounting, adding texts, closing and reopening the page
StoreInit ==
  /\ ParserIdle
  /\ GatewayIdle
  /\ OthersIdle
  /\ lastSettled = NoSettled
  /\ unsettledClicks = 0
  /\ unsettledExports = 0
  /\ mountPc = "unmounted"
  /\ texts = <<>>
  /\ pendingTexts = NoPending
  /\ persisted = NoItem
  /\ newText = <<>>
  /\ isAddingNew = FALSE
  /\ notification = NoNotification
  /\ timers = 0
  /\ selectedText = NoText
  /\ selectedWord = NoText
  /\ wordAnalysis = NoValue
  /\ isLoading = FALSE
  /\ inflight = <<>>
  /\ ankiInflight = 0
  /\ lastEvent = Event("none")
  /\ anyResolved = FALSE
  /\ savedBefore = <<>>

StoreNext ==
  \/ Mount \/ LoadEffect \/ PersistEffect \/ ApplyLoadedTexts
  \/ OpenAddDialog \/ CloseAddDialog \/ TypeNewText \/ handleSaveText
  \/ TimerFires \/ CloseNotification \/ Reload

SpecStore == StoreInit /\ [][StoreNext]_vars

\* lines 58-67 once more, as React's StrictMode does on mount in development:
\* both effects run a second time before any queued setTexts is applied. The
\* load effect reads the slot the persist effect has just written and queues
\* a setTexts of what it parses, after the one already queued; the persist
\* effect writes texts, still [], again
RerunMountEffects ==
  /\ mountPc = "persisted"
  /\ IF persisted.s # <<>>
       THEN LET loaded == ParseTexts(persisted.s)
            IN  IF loaded.ok
                  THEN /\ pendingTexts' = [present |-> TRUE, val |-> loaded.val]
                       /\ mountPc' = "persisted"
                  ELSE /\ pendingTexts' = NoPending
                       /\ mountPc' = "crashed"
       ELSE UNCHANGED <<pendingTexts, mountPc>>
  /\ persisted' = Item(StringifyTexts(texts))
  /\ lastEvent' = Event("rerun")
  /\ UNCHANGED <<texts, newText, isAddingNew, notificationVars, analysisVars,
                 anyResolved, savedBefore, lastSettled, unsettledClicks,
                 unsettledExports, parserVars, gatewayVars, otherVars>>

StrictStoreNext == StoreNext \/ RerunMountEffects

SpecStrictStore == StoreInit /\ [][StrictStoreNext]_vars

\* ---- reading: the component mounted with one saved text, of two words
\* with two spaces between them (so that an empty word is rendered too)
SurfaceTexts == <<<<"H", " ", " ", "g">>>>

SurfaceInit ==
  /\ ParserIdle
  /\ GatewayIdle
  /\ OthersIdle
  /\ lastSettled = NoSettled
  /\ unsettledClicks = 0
  /\ unsettledExports = 0
  /\ mountPc = "ready"
  /\ texts = SurfaceTexts
  /\ pendingTexts = NoPending
  /\ persisted = Item(StringifyTexts(SurfaceTexts))
  /\ newText = <<>>
  /\ isAddingNew = FALSE
  /\ notification = NoNotification
  /\ timers = 0
  /\ selectedText = NoText
  /\ selectedWord = NoText
  /\ wordAnalysis = NoValue
  /\ isLoading = FALSE
  /\ inflight = <<>>
  /\ ankiInflight = 0
  /\ lastEvent = Event("mounted")
  /\ anyResolved = FALSE
  /\ savedBefore = SurfaceTexts

SurfaceNext ==
  \/ SelectText \/ handleWordClick \/ AnalysisSettles
  \/ saveToAnki \/ AnkiSettles \/ readText
  \/ TimerFires \/ CloseNotification

SpecSurface == SurfaceInit /\ [][SurfaceNext]_vars

\* ---- the three components that issue requests, each run on its own: the
\* analysis gateway, the flashcard gateway, and the reading surface
RequestersInit == GatewayInit \/ AnkiInit \/ SurfaceInit

RequestersNext ==
  \/ (ankiPc = "off" /\ ~Ready /\ Next)
  \/ AnkiNext
  \/ SurfaceNext

SpecRequesters == RequestersInit /\ [][RequestersNext]_vars

\* ------------------------------------------------ claims on the gateway
Responded == gwPc = "responded"

\* a word or context that is not a string, is empty, or holds whitespace only
BlankOrNotString(v) ==
  v.t # "string" \/ \A i \in 1..Len(v.s) : IsWhitespace(v.s[i])

InputRejectable(req) ==
  req.body = "object" /\ (BlankOrNotString(req.word) \/ BlankOrNotString(req.context))

\* C1: a request whose word or context is empty, whitespace-only or not a
\* string is answered with status 400, and no call to the language-model
\* endpoint is made while it is handled.
C1_InvalidInputRejected ==
  InputRejectable(request) =>
    /\ outboundCalls = 0
    /\ gwPc # "fetching"
    /\ Responded => response.status = 400

\* a whitespace-only word with a good context and a configured key, answered
C1_Witness ==
  /\ Responded
  /\ apiKey = "sk-test"
  /\ request.body = "object"
  /\ request.word = StringValue(<<" ">>)
  /\ request.context = StringValue(<<"a">>)
  /\ response.status = 400

NotConfigured == apiKey \in {Undefined, ""}

\* C2 as stated: with no credential configured every request is answered
\* with status 500 and no call to the language-model endpoint is made.
C2_AlwaysMisconfigured500 ==
  (NotConfigured /\ Responded) =>
    (response.status = 500 /\ outboundCalls = 0)

\* C2 amended: with no credential configured no call to the language-model
\* endpoint is made, and the request is answered with status 500 unless its
\* word or context is invalid, which is answered with status 400 first.
C2_MisconfiguredAfterValidation ==
  NotConfigured =>
    /\ outboundCalls = 0
    /\ gwPc # "fetching"
    /\ Responded =>
         IF InputRejectable(request)
           THEN response.status = 400
           ELSE response.status = 500
    /\ (Responded /\ request.body = "object" /\ ~InputRejectable(request)) =>
         response = MisconfiguredResponse

\* valid input, the key set to the empty string, answered
C2_Witness ==
  /\ Responded
  /\ apiKey = ""
  /\ request.body = "object"
  /\ ~InputRejectable(request)
  /\ response.status = 500

UpstreamFailed ==
  Responded /\ upstream.kind = "http" /\ ~ResponseOk(upstream.status)

\* no piece of the response body is taken from the upstream error body
NothingFromErrorBody(resp) ==
  /\ \A i \in 1..Len(resp.error) : resp.error[i].src # "errorBody"
  /\ \A i \in 1..Len(resp.details) : resp.details[i].src # "errorBody"
  /\ resp.kind = "error"

\* C3 as stated: a non-success status of the language-model endpoint is
\* answered with status 500 and a body holding nothing of the upstream error
\* body.
C3_UpstreamErrorIs500 ==
  UpstreamFailed =>
    (response.status = 500 /\ NothingFromErrorBody(response))

\* C3 amended: a non-success status of the language-model endpoint is
\* answered with that same status (429 stays 429) and a body holding nothing
\* of the upstream error body: a fixed prefix and the upstream status text.
C3_UpstreamStatusPassedOn ==
  UpstreamFailed =>
    /\ response.status = upstream.status
    /\ ~ResponseOk(response.status)
    /\ NothingFromErrorBody(response)

\* the endpoint answered 429 with a JSON error body
C3_Witness ==
  /\ UpstreamFailed
  /\ upstream.status = 429
  /\ upstream.bodyIsJson
  /\ response.status = 429

\* the content as the claim words it: choices[0].text if present, otherwise
\* choices[0].message.content
ContentAsStated(data) == IF data.text.present THEN data.text ELSE data.message

\* a text that JSON-parses to an object with both required fields truthy
ParsesToAnalysis(text) ==
  LET p == ParseJSON(text)
  IN  /\ p.ok
      /\ p.val.type = "object"
      /\ Truthy(GetField(p.val, "grammarDetailsAndUsage"))
      /\ Truthy(GetField(p.val, "example"))

UpstreamSucceeded ==
  /\ Responded
  /\ upstream.kind = "http"
  /\ ResponseOk(upstream.status)
  /\ upstream.bodyIsJson

\* C4: with valid input and a configured credential, when the upstream call
\* succeeds and its content (as it stands, or with its fence removed) parses
\* to an object with grammarDetailsAndUsage and example truthy, the answer
\* is status 200 with a body equal to that object.
C4_ValidContentReturned ==
  UpstreamSucceeded =>
    LET c == ContentAsStated(upstream.data)
    IN  \A text \in {c.s, CleanContent(c.s)} :
          (c.present /\ ParsesToAnalysis(text)) =>
            response = AnalysisResponse(ParseJSON(text).val)

\* both envelope fields carry a valid object and the one of text is returned
C4_Witness ==
  /\ UpstreamSucceeded
  /\ upstream.data =
       Envelope(Text(ObjectText(StrHaus, ExFull, Absent)), Text(OtherContent))
  /\ response.status = 200
  /\ GetField(response.analysis, "grammarDetailsAndUsage") = StrHaus

\* the content the handler extracts parses, fence removed, to a JSON value
\* that lacks a truthy grammarDetailsAndUsage or a truthy example
LacksRequiredField(data) ==
  LET c == ExtractContent(data)
      p == ParseJSON(CleanContent(c.s))
  IN  /\ c.present
      /\ c.s # <<>>
      /\ p.ok
      /\ \/ ~Truthy(GetField(p.val, "grammarDetailsAndUsage"))
         \/ ~Truthy(GetField(p.val, "example"))

GenericError(resp) ==
  /\ resp.kind = "error"
  /\ resp.analysis = NoValue
  /\ \A i \in 1..Len(resp.error) : resp.error[i].src = "literal"
  /\ resp.details = <<>>

\* C6: when the parsed JSON of the upstream content lacks example or
\* grammarDetailsAndUsage, or has either one falsy, whatever else it holds,
\* the answer is status 500 with a generic error body and no analysis.
C6_MissingFieldFails ==
  (UpstreamSucceeded /\ LacksRequiredField(upstream.data)) =>
    /\ response.status = 500
    /\ GenericError(response)

\* an object with grammarDetailsAndUsage and an extra field but no example
C6_Witness ==
  /\ UpstreamSucceeded
  /\ upstream.data = Envelope(NoText, Text(ObjectText(StrHaus, Absent, StrVerb)))
  /\ response.status = 500

\* C7 (gateway part): every analysis returned with status 200 has an example
\* with both german and russian populated.
C7_ExampleAlwaysComplete ==
  (Responded /\ response.status = 200) =>
    ExampleComplete(GetField(response.analysis, "example"))


\* ---------------------------------------------- claims on the component
\* C8 (the error half): a notification of kind error stays displayed until
\* it is dismissed or replaced by another notification; no timer removes it.
C8_ErrorNeverRemovedByTimer ==
  [][(notification.type = "error" /\ notification' # notification)
       => lastEvent'.kind # "timer"]_vars

\* C9: the collection held when the page is closed is the collection the
\* next startup yields, string for string and in order; with nothing
\* persisted the load effect queues nothing and texts stays empty; the load
\* never fails on what the component persisted.
C9_RoundTrip ==
  /\ mountPc # "crashed"
  /\ (Ready /\ lastEvent.kind = "mounted") => texts = savedBefore
  /\ (lastEvent.kind = "load" /\ ~persisted.present) =>
       (~pendingTexts.present /\ texts = <<>>)

\* a collection of two equal texts made of quotes and a comma, reloaded
C9_Witness ==
  /\ Ready
  /\ lastEvent.kind = "mounted"
  /\ savedBefore = <<QuotedText, QuotedText>>
  /\ texts = <<QuotedText, QuotedText>>

\* the last step settled an analysis request with a failure: a network
\* error, an unreadable body, or a non-success response of the gateway
AnalysisJustFailed ==
  /\ lastEvent.kind = "analysisSettled"
  /\ \/ lastEvent.outcome \in {"network", "unreadable"}
     \/ ~ResponseOk(lastEvent.status)

\* C10: when an analysis request fails the displayed analysis becomes the
\* fallback record and an error notification is shown; once any analysis
\* request has settled the wordAnalysis slot is not empty.
C10_FallbackOnFailure ==
  /\ AnalysisJustFailed =>
       (wordAnalysis = FALLBACK_ANALYSIS /\ notification.type = "error")
  /\ anyResolved => wordAnalysis # NoValue

\* the gateway answered 429 while another request was still in flight
C10_Witness ==
  /\ lastEvent.kind = "analysisSettled"
  /\ lastEvent.outcome = "response"
  /\ lastEvent.status = 429
  /\ wordAnalysis = FALLBACK_ANALYSIS
  /\ notification.type = "error"
  /\ inflight # <<>>

\* C5: for every content C, parseOpenAIResponse of C wrapped in a markdown
\* JSON fence has the outcome of parseOpenAIResponse of C alone: the same
\* object, or failure in both cases.
C5_FenceIsNoOp ==
  "fenced" \in parsed => fencedResult = plainResult

\* a content that parses, parsed both ways
C5_Witness ==
  /\ "fenced" \in parsed
  /\ plainResult.ok
  /\ fencedResult.ok


\* ------------------------------------------------ claims on the flashcard gateway
AnkiResponded == ankiPc = "responded"

AnkiServiceAnswered == ankiUpstream.kind = "http"

\* the reply's body has a member named error, whatever its value
CarriesErrorField ==
  ankiUpstream.body \in {"errorNull", "errorEmpty", "errorText"}

\* the reply's body is a JSON object whose error member is a non-empty
\* string
CarriesError == ankiUpstream.body = "errorText"

\* the reply's body is no JSON object: it does not parse, or it is null
BodyNotAnObject == ankiUpstream.body \in {"notJson", "null"}

FixedError ==
  /\ ankiResponse.status = 500
  /\ ankiResponse.kind = "error"
  /\ ankiResponse.error = <<"Anki operation failed">>

SuccessTrue == ankiResponse.status = 200 /\ ankiResponse.kind = "success"

\* C11 as stated: a reply with a non-success status or with an error field
\* in its body, or a call that throws, is answered with 500 and the fixed
\* error body; a successful reply with no error field is answered with 200
\* and {success: true}
C11_AnyErrorFieldFails ==
  AnkiResponded /\ ankiCalls > 0 =>
    /\ (\/ ankiUpstream.kind = "network"
        \/ AnkiServiceAnswered /\ ~ResponseOk(ankiUpstream.status)
        \/ AnkiServiceAnswered /\ CarriesErrorField) => FixedError
    /\ (/\ AnkiServiceAnswered
        /\ ResponseOk(ankiUpstream.status)
        /\ ~CarriesErrorField) => SuccessTrue

\* C11, amended: the handler answers with 500 and the fixed error body when
\* the call throws, the reply has a non-success status, its body is no JSON
\* object, or its error member is a non-empty string; it answers with 200
\* and {success: true} when the reply has a success status and a JSON
\* object body whose error member is absent, null or empty
C11_TruthyErrorFails ==
  AnkiResponded =>
    /\ (\/ ankiCalls = 0
        \/ ankiUpstream.kind = "network"
        \/ AnkiServiceAnswered /\ ~ResponseOk(ankiUpstream.status)
        \/ AnkiServiceAnswered /\ BodyNotAnObject
        \/ AnkiServiceAnswered /\ CarriesError) => FixedError
    /\ (/\ AnkiServiceAnswered
        /\ ResponseOk(ankiUpstream.status)
        /\ ~BodyNotAnObject
        /\ ~CarriesError) => SuccessTrue

\* a failing status with a body that reports no error, answered with 500
C11_Witness ==
  /\ AnkiResponded
  /\ AnkiServiceAnswered
  /\ ankiUpstream.status = 404
  /\ ankiUpstream.body = "errorNull"
  /\ FixedError


\* what analyzeWord stores for an outcome of its request: the analysis of a
\* success response, the fallback record otherwise
StoredFor(outcome) ==
  IF outcome.kind = "response" /\ ResponseOk(outcome.resp.status)
    THEN outcome.resp.analysis
    ELSE FALLBACK_ANALYSIS

\* for each word of the saved text: the ways its request can settle, each
\* with what analyzeWord then stores
SettledResults ==
  [w \in WordsOf(SurfaceTexts[1]) |->
     {[outcome |-> o.kind, status |-> o.resp.status, stored |-> StoredFor(o)] :
        o \in AnalyzeOutcomes(w, SurfaceTexts[1])}]

\* C12: a click while requests are in flight cancels none of them (every
\* click not yet settled has its request in flight), and at the moment a
\* request settles, in whatever order, the wordAnalysis slot holds what that
\* request's outcome stores: the slot shows the result of the request that
\* settled last, whichever word is selected.
C12_LastSettledWins ==
  /\ Len(inflight) = unsettledClicks
  /\ lastEvent.kind = "analysisSettled" =>
       /\ lastSettled.present
       /\ [outcome |-> lastEvent.outcome, status |-> lastEvent.status,
           stored |-> wordAnalysis] \in SettledResults[lastSettled.s]
  /\ anyResolved =>
       wordAnalysis \in {r.stored : r \in SettledResults[lastSettled.s]}

\* H was clicked, then g; the request for g settled first and the request
\* for H last, with an analysis: the slot shows it while g is selected
C12_Witness ==
  /\ inflight = <<>>
  /\ lastEvent.kind = "analysisSettled"
  /\ lastSettled = Text(<<"H">>)
  /\ selectedWord = Text(<<"g">>)
  /\ wordAnalysis \notin {NoValue, FALLBACK_ANALYSIS}


C14_UntaggedFenceStripped ==
  ("untagged" \in parsed /\ plainResult.ok) => untaggedResult = plainResult


\* ------------------------------------------------ claims on the text store
\* C15: after every mutation of the texts collection (a saved text, or the
\* loaded collection applied at mount), once the persist effect has run, the
\* persisted slot holds the serialization of the whole current collection.
C15_PersistedIsCurrent ==
  Ready => persisted = Item(StringifyTexts(texts))

\* a second text was saved: the slot, which held the serialization of one
\* text, now holds the serialization of both
C15_Witness ==
  /\ Ready
  /\ lastEvent.kind = "saved"
  /\ Len(texts) = 2
  /\ persisted.present
  /\ ParseTexts(persisted.s).val = texts

\* newText has a character that trim() keeps
NonEmptyAfterTrim(s) == \E i \in 1..Len(s) : ~IsWhitespace(s[i])

\* C16: the save-text action only appends. With a new text that is not
\* empty after trimming, the collection becomes the previous collection
\* followed by the text as typed, the input is cleared and the dialog
\* closes; with an empty or whitespace-only text, the collection, the dialog
\* state and the notification stay as they are.
C16_SaveOnlyAppends ==
  [][lastEvent'.kind \in {"saved", "saveIgnored"} =>
       IF NonEmptyAfterTrim(newText)
         THEN /\ lastEvent'.kind = "saved"
              /\ texts' = texts \o <<newText>>
              /\ newText' = <<>>
              /\ ~isAddingNew'
         ELSE /\ lastEvent'.kind = "saveIgnored"
              /\ texts' = texts
              /\ isAddingNew' = isAddingNew
              /\ notification' = notification
    ]_vars

\* a text typed with a leading space was saved second, space included
C16_Witness ==
  /\ lastEvent.kind = "saved"
  /\ Len(texts) = 2
  /\ texts[2] = <<" ", "a">>
  /\ newText = <<>>
  /\ ~isAddingNew


\* the component is between its first render and the first user event
Starting ==
  \/ mountPc \in {"rendered", "loaded", "persisted"}
  \/ Ready /\ lastEvent.kind = "mounted"

\* C19: startup never loses persisted texts: in every state between mounting
\* and the first user event the persisted slot holds the collection that was
\* persisted before the mount, also when the mount effects run twice.
C19_StartupKeepsPersisted ==
  (Starting /\ savedBefore # <<>>) =>
    persisted = Item(StringifyTexts(savedBefore))

\* C18: the loading indicator is set exactly when at least one analysis
\* request is in flight.
C18_LoadingIffInFlight ==
  isLoading <=> inflight # <<>>


\* ------------------------------------------------ claims on retries
\* C17: no request is retried. A POST /api/analyze request has made one call
\* to the language-model endpoint once its fetch is issued, and still one
\* when it has answered, whatever the upstream did; none otherwise. The same
\* holds for POST /api/anki and the flashcard service. On the surface the
\* analysis requests in flight are as many as the word clicks not yet
\* settled, and the exports in flight as many as the export clicks not yet
\* settled.
C17_NoRetries ==
  /\ outboundCalls =
       (IF gwPc = "fetching" \/ (gwPc = "responded" /\ upstream # NoUpstream)
          THEN 1 ELSE 0)
  /\ ankiCalls =
       (IF \/ ankiPc = "fetching"
           \/ (ankiPc = "responded" /\ ankiUpstream # NoAnkiUpstream)
          THEN 1 ELSE 0)
  /\ Len(inflight) = unsettledClicks
  /\ ankiInflight = unsettledExports

\* the language-model endpoint answered 429 and the handler has responded,
\* after one call
C17_Witness ==
  /\ gwPc = "responded"
  /\ upstream.kind = "http"
  /\ upstream.status = 429
  /\ outboundCalls = 1

====
